---- MODULE Spec2Model ----
(***************************************************************************)
(* MyStocksApp backend (Backend/app.py): the in-memory device registry,    *)
(* the price-alert store and the notification dispatch loops, as the Flask *)
(* handlers implement them.                                                 *)
(*                                                                          *)
(* Prices are integers in hundredths of a currency unit (150.00 = 15000).  *)
(* Wall-clock fields (registered_at, created_at, sent_at, timestamp) are   *)
(* written by the handlers and read by nothing; they are left out.         *)
(***************************************************************************)
EXTENDS Integers, Sequences, FiniteSets, TLC

VARIABLES
    device_tokens,   \* app.py:37  dict token -> entry, as CPython stores it
    price_alerts,    \* app.py:38  list of price alerts
    pc,              \* per request thread: where its handler stands
    req,             \* per request thread: the request it serves / served last
    resp,            \* per request thread: the response it returned last
    iter,            \* per request thread: the dict key iterator of its loop
    sent_count,      \* per request thread: broadcast_notification's counter
    sent,            \* per request thread: send_push_notification calls made
    view,            \* history: the keys registered when the loop started
    before,          \* history: the shared state as the last store or
                     \* registry request found it
    transport_down,  \* the tokens the notification transport fails for
    locals,          \* per request thread: the alert or the filtered list
                     \* its handler has built and not yet stored
    overlapped       \* history: the thread's request ran while a request
                     \* of another thread was being served

vars == <<device_tokens, price_alerts, pc, req, resp, iter, sent_count, sent,
          view, before, transport_down,
          locals, overlapped>>

----------------------------------------------------------------------------
(* Bounds of the model *)

\* most alerts the store holds (create is not offered beyond it)
MaxAlerts == 3

\* most slots the registry's entry table has used (inserts of new keys);
\* CPython's smallest table holds 5 entries before it is rebuilt
MaxEntries == 4

Threads == {"t1", "t2"}
Tokens == {"A", "B"}

----------------------------------------------------------------------------
(* JSON values of a request body *)

Absent == [kind |-> "absent", n |-> 0, s |-> ""]
Num(n) == [kind |-> "num", n |-> n, s |-> ""]
Str(s) == [kind |-> "str", n |-> 0, s |-> s]

\* str.upper() on the ticker strings the model uses
Upper(s) ==
    CASE s = "aapl" -> "AAPL"
      [] s = "msft" -> "MSFT"
      [] OTHER -> s

\* float(x), in hundredths: a JSON number converts to itself, a string is
\* parsed, and text that is no number raises ValueError
PyFloatOk(v) ==
    \/ v.kind = "num"
    \/ v.kind = "str" /\ v.s \in {"150", "150.00", "0", "-5"}

PyFloat(v) ==
    IF v.kind = "num" THEN v.n
    ELSE CASE v.s = "150" -> 15000
           [] v.s = "150.00" -> 15000
           [] v.s = "0" -> 0
           [] v.s = "-5" -> -500
           [] OTHER -> 0

----------------------------------------------------------------------------
(* Responses *)

NoBody == [kind |-> "none"]
NoReq == [op |-> "none"]
NoResp == [op |-> "none", status |-> 0, body |-> NoBody]

Response(op, status, body) == [op |-> op, status |-> status, body |-> body]

ErrorBody(msg) == [kind |-> "error", error |-> msg]

Snapshot(t) == [by |-> t, alerts |-> price_alerts, tokens |-> device_tokens]

NoIter == [di_used |-> 0, di_pos |-> 0, len |-> 0]

\* a handler that runs no notification loop has none of its locals
NoLoop(t) ==
    /\ iter' = [iter EXCEPT ![t] = NoIter]
    /\ sent_count' = [sent_count EXCEPT ![t] = 0]
    /\ sent' = [sent EXCEPT ![t] = <<>>]
    /\ view' = [view EXCEPT ![t] = {}]

----------------------------------------------------------------------------
(* Price alerts *)

\* the bodies POST /api/alerts/price is driven with
PriceAlertBodies ==
    { [symbol |-> Str("aapl"), target_price |-> Num(15000),
       direction |-> Str("above"), device_token |-> Str("A")],
      [symbol |-> Str("MSFT"), target_price |-> Str("150.00"),
       direction |-> Str("below"), device_token |-> Absent],
      [symbol |-> Str("aapl"), target_price |-> Num(0),
       direction |-> Str("above"), device_token |-> Absent],
      [symbol |-> Str("msft"), target_price |-> Str("-5"),
       direction |-> Str("below"), device_token |-> Str("B")],
      [symbol |-> Str("aapl"), target_price |-> Num(15000),
       direction |-> Str("sideways"), device_token |-> Absent],
      [symbol |-> Str("aapl"), target_price |-> Str("abc"),
       direction |-> Str("above"), device_token |-> Absent],
      [symbol |-> Str("aapl"), target_price |-> Absent,
       direction |-> Str("above"), device_token |-> Absent],
      [symbol |-> Str("aapl"), target_price |-> Num(15000),
       direction |-> Absent, device_token |-> Str("A")] }

\* all(field in data for field in required_fields)
PriceAlertFieldsPresent(data) ==
    /\ data.symbol.kind # "absent"
    /\ data.target_price.kind # "absent"
    /\ data.direction.kind # "absent"

\* data.get('device_token')
GetDeviceToken(data) ==
    IF data.device_token.kind = "absent" THEN "None" ELSE data.device_token.s

\* ids counted from zero
NextAlertId_Len(alerts) == Len(alerts)

\* 'id': len(price_alerts) + 1
NextAlertId(alerts) == Len(alerts) + 1

NewPriceAlert(alerts, data) ==
    [id |-> NextAlertId(alerts),
     symbol |-> Upper(data.symbol.s),
     target_price |-> PyFloat(data.target_price),
     direction |-> data.direction.s,
     device_token |-> GetDeviceToken(data),
     triggered |-> FALSE]

create_price_alert(t, data) ==
    /\ pc[t] = "idle"
    /\ Len(price_alerts) < MaxAlerts
    /\ req' = [req EXCEPT ![t] = [op |-> "create_price_alert", data |-> data]]
    /\ before' = Snapshot(t)
    /\ IF ~PriceAlertFieldsPresent(data)
       THEN /\ resp' = [resp EXCEPT ![t] =
                  Response("create_price_alert", 400,
                           ErrorBody("Missing required fields"))]
            /\ UNCHANGED price_alerts
       ELSE IF ~PyFloatOk(data.target_price)
       THEN \* float() raises ValueError: Flask answers 500
            /\ resp' = [resp EXCEPT ![t] =
                  Response("create_price_alert", 500, ErrorBody("ValueError"))]
            /\ UNCHANGED price_alerts
       ELSE /\ price_alerts' = Append(price_alerts,
                                      NewPriceAlert(price_alerts, data))
            /\ resp' = [resp EXCEPT ![t] =
                  Response("create_price_alert", 200,
                           [kind |-> "alert",
                            alert |-> NewPriceAlert(price_alerts, data)])]
    /\ NoLoop(t)
    /\ UNCHANGED <<device_tokens, pc, transport_down,
                   locals, overlapped>>

\* a listing that answers the newest alert first
get_price_alerts_NewestFirst(t) ==
    /\ pc[t] = "idle"
    /\ req' = [req EXCEPT ![t] = [op |-> "get_price_alerts"]]
    /\ before' = Snapshot(t)
    /\ resp' = [resp EXCEPT ![t] =
          Response("get_price_alerts", 200,
                   [kind |-> "alerts",
                    alerts |-> [i \in 1 .. Len(price_alerts) |->
                                   price_alerts[Len(price_alerts) + 1 - i]]])]
    /\ NoLoop(t)
    /\ UNCHANGED <<device_tokens, price_alerts, pc, transport_down,
                   locals, overlapped>>

get_price_alerts(t) ==
    /\ pc[t] = "idle"
    /\ req' = [req EXCEPT ![t] = [op |-> "get_price_alerts"]]
    /\ before' = Snapshot(t)
    /\ resp' = [resp EXCEPT ![t] =
          Response("get_price_alerts", 200,
                   [kind |-> "alerts", alerts |-> price_alerts])]
    /\ NoLoop(t)
    /\ UNCHANGED <<device_tokens, price_alerts, pc, transport_down,
                   locals, overlapped>>

\* the filter written with < where the source has !=
WithoutId_Lt(alerts, alert_id) ==
    SelectSeq(alerts, LAMBDA a : a.id < alert_id)

\* a filter that drops the first alert of the id only
WithoutId_First(alerts, alert_id) ==
    LET hits == {i \in 1 .. Len(alerts) : alerts[i].id = alert_id}
    IN IF hits = {} THEN alerts
       ELSE LET first == CHOOSE i \in hits : \A j \in hits : i <= j
            IN [i \in 1 .. Len(alerts) - 1 |->
                   IF i < first THEN alerts[i] ELSE alerts[i + 1]]

\* [a for a in price_alerts if a['id'] != alert_id]
WithoutId(alerts, alert_id) ==
    SelectSeq(alerts, LAMBDA a : a.id # alert_id)

delete_price_alert(t, alert_id) ==
    /\ pc[t] = "idle"
    /\ req' = [req EXCEPT ![t] =
          [op |-> "delete_price_alert", alert_id |-> alert_id]]
    /\ before' = Snapshot(t)
    /\ price_alerts' = WithoutId(price_alerts, alert_id)
    /\ resp' = [resp EXCEPT ![t] =
          Response("delete_price_alert", 200,
                   [kind |-> "message", message |-> "Alert deleted"])]
    /\ NoLoop(t)
    /\ UNCHANGED <<device_tokens, pc, transport_down,
                   locals, overlapped>>

\* the handlers of the alert store step by step, as request threads that
\* run at once interleave them

NoAlert ==
    [id |-> 0, symbol |-> "", target_price |-> 0, direction |-> "",
     device_token |-> "None", triggered |-> FALSE]

\* no alert built, no list filtered
NoLocals == [alert |-> NoAlert, kept |-> <<>>]

\* thread t starts a request: it overlaps every request being served, and
\* every request being served overlaps it
Overlap(t) ==
    [u \in Threads |->
        IF u = t THEN \E o \in Threads \ {t} : pc[o] # "idle"
        ELSE overlapped[u] \/ pc[u] # "idle"]

\* create_price_alert up to the alert dict: len(price_alerts) is read here
create_price_alert_build(t, data) ==
    /\ pc[t] = "idle"
    /\ Len(price_alerts)
          + Cardinality({u \in Threads : pc[u] = "create_append"}) < MaxAlerts
    /\ req' = [req EXCEPT ![t] = [op |-> "create_price_alert", data |-> data]]
    /\ overlapped' = Overlap(t)
    /\ IF ~PriceAlertFieldsPresent(data)
       THEN /\ resp' = [resp EXCEPT ![t] =
                  Response("create_price_alert", 400,
                           ErrorBody("Missing required fields"))]
            /\ UNCHANGED <<pc, locals>>
       ELSE IF ~PyFloatOk(data.target_price)
       THEN /\ resp' = [resp EXCEPT ![t] =
                  Response("create_price_alert", 500, ErrorBody("ValueError"))]
            /\ UNCHANGED <<pc, locals>>
       ELSE /\ locals' = [locals EXCEPT ![t] =
                  [alert |-> NewPriceAlert(price_alerts, data),
                   kept |-> <<>>]]
            /\ pc' = [pc EXCEPT ![t] = "create_append"]
            /\ resp' = [resp EXCEPT ![t] = NoResp]
    /\ UNCHANGED <<device_tokens, price_alerts, iter, sent_count, sent, view,
                   before, transport_down>>

\* price_alerts.append(alert) and the response
create_price_alert_append(t) ==
    /\ pc[t] = "create_append"
    /\ pc' = [pc EXCEPT ![t] = "idle"]
    /\ price_alerts' = Append(price_alerts, locals[t].alert)
    /\ resp' = [resp EXCEPT ![t] =
          Response("create_price_alert", 200,
                   [kind |-> "alert", alert |-> locals[t].alert])]
    /\ locals' = [locals EXCEPT ![t] = NoLocals]
    /\ UNCHANGED <<device_tokens, req, iter, sent_count, sent, view, before,
                   transport_down, overlapped>>

\* delete_price_alert up to the end of its list comprehension: the list
\* iterator sees every alert appended before it is exhausted, so the new
\* list is the filter of the store as it is at this step
delete_price_alert_filter(t, alert_id) ==
    /\ pc[t] = "idle"
    /\ req' = [req EXCEPT ![t] =
          [op |-> "delete_price_alert", alert_id |-> alert_id]]
    /\ overlapped' = Overlap(t)
    /\ locals' = [locals EXCEPT ![t] =
          [alert |-> NoAlert, kept |-> WithoutId(price_alerts, alert_id)]]
    /\ pc' = [pc EXCEPT ![t] = "delete_assign"]
    /\ resp' = [resp EXCEPT ![t] = NoResp]
    /\ UNCHANGED <<device_tokens, price_alerts, iter, sent_count, sent, view,
                   before, transport_down>>

\* the assignment of the new list to the global price_alerts and the
\* response
delete_price_alert_assign(t) ==
    /\ pc[t] = "delete_assign"
    /\ pc' = [pc EXCEPT ![t] = "idle"]
    /\ price_alerts' = locals[t].kept
    /\ resp' = [resp EXCEPT ![t] =
          Response("delete_price_alert", 200,
                   [kind |-> "message", message |-> "Alert deleted"])]
    /\ locals' = [locals EXCEPT ![t] = NoLocals]
    /\ UNCHANGED <<device_tokens, req, iter, sent_count, sent, view, before,
                   transport_down, overlapped>>

----------------------------------------------------------------------------
(* Market data *)

\* what ticker.info holds; a key that is not there is NoKey
NoKey == [kind |-> "absent", n |-> 0, s |-> ""]

TickerInfos ==
    { [currentPrice |-> Num(14999), regularMarketPrice |-> NoKey,
       previousClose |-> Num(10000)],
      [currentPrice |-> Num(15000), regularMarketPrice |-> NoKey,
       previousClose |-> Num(10000)],
      [currentPrice |-> NoKey, regularMarketPrice |-> Num(15100),
       previousClose |-> NoKey] }

\* info.get(key, 0): the value, or 0 for a key that is not there
InfoGet0(v) == IF v.kind = "absent" THEN 0 ELSE v.n

\* info.get('currentPrice') or info.get('regularMarketPrice', 0)
CurrentPrice(info) ==
    IF info.currentPrice.kind # "absent" /\ info.currentPrice.n # 0
    THEN info.currentPrice.n
    ELSE InfoGet0(info.regularMarketPrice)

Quote(symbol, info) ==
    LET cur == CurrentPrice(info)
        prev == InfoGet0(info.previousClose)
    IN [kind |-> "quote",
        symbol |-> Upper(symbol),
        current_price |-> cur,
        previous_close |-> prev,
        change |-> IF prev > 0 THEN cur - prev ELSE 0,
        \* (change / previous_close) * 100, as the fraction num / den
        change_percent |-> IF prev > 0
                           THEN [num |-> (cur - prev) * 100, den |-> prev]
                           ELSE [num |-> 0, den |-> 1]]

\* ok = FALSE: yfinance raised, the handler's except answers 500
get_quote(t, symbol, info, ok) ==
    /\ pc[t] = "idle"
    /\ req' = [req EXCEPT ![t] = [op |-> "get_quote", symbol |-> symbol]]
    /\ before' = Snapshot(t)
    /\ resp' = [resp EXCEPT ![t] =
          IF ok THEN Response("get_quote", 200, Quote(symbol, info))
          ELSE Response("get_quote", 500, ErrorBody("Exception"))]
    /\ NoLoop(t)
    /\ UNCHANGED <<device_tokens, price_alerts, pc, transport_down,
                   locals, overlapped>>

----------------------------------------------------------------------------
(* The device registry: a Python dict *)

(* CPython keeps a dict's entries in a table in insertion order: a new key   *)
(* takes the next free slot, assigning to a key that is there rewrites its   *)
(* slot, and del leaves an empty slot behind.  Iteration walks the table.    *)
Tomb == [key |-> "", live |-> FALSE, user_id |-> "", platform |-> ""]

Entry(token, user_id, platform) ==
    [key |-> token, live |-> TRUE, user_id |-> user_id, platform |-> platform]

LiveSlots(d) == {i \in 1 .. Len(d) : d[i].live}

\* device_tokens.keys() as a set
Keys(d) == {d[i].key : i \in LiveSlots(d)}

\* len(d), the dict's ma_used
Used(d) == Cardinality(LiveSlots(d))

SlotOf(d, token) == CHOOSE i \in LiveSlots(d) : d[i].key = token

\* a store that always takes a new slot
DictSet_Append(d, e) == Append(d, e)

\* d[token] = entry
DictSet(d, e) ==
    IF e.key \in Keys(d)
    THEN [d EXCEPT ![SlotOf(d, e.key)] = e]
    ELSE Append(d, e)

\* a del that leaves the entry where it is
DictDel_Keep(d, token) == d

\* del d[token], for a token that is in d
DictDel(d, token) == [d EXCEPT ![SlotOf(d, token)] = Tomb]

\* the slots a key iterator at position pos has still to walk
SlotsAhead(d, pos) == {i \in LiveSlots(d) : i > pos}

NextSlot(d, pos) ==
    CHOOSE i \in SlotsAhead(d, pos) : \A j \in SlotsAhead(d, pos) : i <= j

\* iter(device_tokens.keys())
NewIter(d) == [di_used |-> Used(d), di_pos |-> 0, len |-> Used(d)]

\* next() on the key iterator: "size" and "keys" are the two RuntimeErrors
\* ("dictionary changed size during iteration", "dictionary keys changed
\* during iteration"), "stop" is StopIteration
IterOutcome(d, it) ==
    IF it.di_used # Used(d) THEN "size"
    ELSE IF SlotsAhead(d, it.di_pos) = {} THEN "stop"
    ELSE IF it.len = 0 THEN "keys"
    ELSE "key"

IterAdvance(d, it) ==
    [di_used |-> it.di_used, di_pos |-> NextSlot(d, it.di_pos),
     len |-> it.len - 1]

----------------------------------------------------------------------------
(* Device registration *)

\* a body that is None or {} is falsy
NoJson == [empty |-> TRUE]

RegisterBodies ==
    {NoJson}
    \cup { [empty |-> FALSE, token |-> Str(k), user_id |-> Str("u1"),
            platform |-> Str("android")] : k \in Tokens }
    \cup { [empty |-> FALSE, token |-> Str(k), user_id |-> Absent,
            platform |-> Absent] : k \in Tokens }
    \cup { [empty |-> FALSE, token |-> Absent, user_id |-> Str("u1"),
            platform |-> Str("ios")] }

\* not data or 'token' not in data
TokenMissing(data) == data.empty \/ data.token.kind = "absent"

\* data.get(key, default)
GetOr(v, default) == IF v.kind = "absent" THEN default ELSE v.s

RegisteredEntry(data) ==
    Entry(data.token.s, GetOr(data.user_id, "anonymous"),
          GetOr(data.platform, "ios"))

register_device(t, data) ==
    /\ pc[t] = "idle"
    /\ req' = [req EXCEPT ![t] = [op |-> "register_device", data |-> data]]
    /\ before' = Snapshot(t)
    /\ IF TokenMissing(data)
       THEN /\ resp' = [resp EXCEPT ![t] =
                  Response("register_device", 400, ErrorBody("Token required"))]
            /\ UNCHANGED device_tokens
       ELSE /\ data.token.s \in Keys(device_tokens)
               \/ Len(device_tokens) < MaxEntries
            /\ device_tokens' = DictSet(device_tokens, RegisteredEntry(data))
            /\ resp' = [resp EXCEPT ![t] =
                  Response("register_device", 200,
                           [kind |-> "message",
                            message |-> "Device registered successfully"])]
    /\ NoLoop(t)
    /\ UNCHANGED <<price_alerts, pc, transport_down,
                   locals, overlapped>>

\* an unregister without the membership test: del on whatever token is named
unregister_device_NoTest(t, data) ==
    /\ pc[t] = "idle"
    /\ req' = [req EXCEPT ![t] = [op |-> "unregister_device", data |-> data]]
    /\ before' = Snapshot(t)
    /\ IF TokenMissing(data)
       THEN /\ resp' = [resp EXCEPT ![t] =
                  Response("unregister_device", 400,
                           ErrorBody("Token required"))]
            /\ UNCHANGED pc
       ELSE /\ pc' = [pc EXCEPT ![t] = "unregister_del"]
            /\ resp' = [resp EXCEPT ![t] = NoResp]
    /\ NoLoop(t)
    /\ UNCHANGED <<device_tokens, price_alerts, transport_down,
                   locals, overlapped>>

\* the handler up to and with its test `token in device_tokens`
unregister_device(t, data) ==
    /\ pc[t] = "idle"
    /\ req' = [req EXCEPT ![t] = [op |-> "unregister_device", data |-> data]]
    /\ before' = Snapshot(t)
    /\ IF TokenMissing(data)
       THEN /\ resp' = [resp EXCEPT ![t] =
                  Response("unregister_device", 400,
                           ErrorBody("Token required"))]
            /\ UNCHANGED pc
       ELSE IF data.token.s \in Keys(device_tokens)
       THEN /\ pc' = [pc EXCEPT ![t] = "unregister_del"]
            /\ resp' = [resp EXCEPT ![t] = NoResp]
       ELSE /\ resp' = [resp EXCEPT ![t] =
                  Response("unregister_device", 200,
                           [kind |-> "message",
                            message |-> "Device unregistered successfully"])]
            /\ UNCHANGED pc
    /\ NoLoop(t)
    /\ UNCHANGED <<device_tokens, price_alerts, transport_down,
                   locals, overlapped>>

\* an unregister that also drops the alerts created for the token
unregister_del_Cascade(t) ==
    /\ pc[t] = "unregister_del"
    /\ pc' = [pc EXCEPT ![t] = "idle"]
    /\ IF req[t].data.token.s \in Keys(device_tokens)
       THEN /\ device_tokens' = DictDel(device_tokens, req[t].data.token.s)
            /\ price_alerts' =
                  SelectSeq(price_alerts,
                            LAMBDA a : a.device_token # req[t].data.token.s)
            /\ resp' = [resp EXCEPT ![t] =
                  Response("unregister_device", 200,
                           [kind |-> "message",
                            message |-> "Device unregistered successfully"])]
       ELSE /\ resp' = [resp EXCEPT ![t] =
                  Response("unregister_device", 500, ErrorBody("KeyError"))]
            /\ UNCHANGED <<device_tokens, price_alerts>>
    /\ UNCHANGED <<req, iter, sent_count, sent, view, before, transport_down,
                   locals, overlapped>>

\* del device_tokens[token] and the response; KeyError when another request
\* removed the token after the test
unregister_del(t) ==
    /\ pc[t] = "unregister_del"
    /\ pc' = [pc EXCEPT ![t] = "idle"]
    /\ IF req[t].data.token.s \in Keys(device_tokens)
       THEN /\ device_tokens' = DictDel(device_tokens, req[t].data.token.s)
            /\ resp' = [resp EXCEPT ![t] =
                  Response("unregister_device", 200,
                           [kind |-> "message",
                            message |-> "Device unregistered successfully"])]
       ELSE /\ resp' = [resp EXCEPT ![t] =
                  Response("unregister_device", 500, ErrorBody("KeyError"))]
            /\ UNCHANGED device_tokens
    /\ UNCHANGED <<price_alerts, req, iter, sent_count, sent, view, before,
                   transport_down,
                   locals, overlapped>>

----------------------------------------------------------------------------
(* Push notifications *)

\* the notification send_push_notification builds for one token
Notification(token, title, body, data) ==
    [token |-> token, title |-> title, body |-> body, data |-> data]

\* send_push_notification raises for the tokens of transport_down; the
\* placeholder in the source sends nothing and so never raises
SendFails(token) == token \in transport_down

BroadcastBodies ==
    { NoJson,
      [empty |-> FALSE, title |-> Str("News"), body |-> Str("Up 5%"),
       data |-> Absent],
      [empty |-> FALSE, title |-> Absent, body |-> Absent,
       data |-> Str("payload")] }

\* a loop that forgets to count
Counted_Skip(n) == n

\* sent_count += 1
Counted(n) == n + 1

\* the notification the broadcast loop sends to token
BroadcastNotification(data, token) ==
    Notification(token, <<GetOr(data.title, "MyStocksApp")>>,
                 <<GetOr(data.body, "")>>, GetOr(data.data, "{}"))

\* the handler up to the creation of the loop's key iterator
broadcast_notification(t, data) ==
    /\ pc[t] = "idle"
    /\ req' = [req EXCEPT ![t] = [op |-> "broadcast_notification",
                                  data |-> data]]
    /\ sent' = [sent EXCEPT ![t] = <<>>]
    /\ sent_count' = [sent_count EXCEPT ![t] = 0]
    /\ IF data.empty
       THEN /\ resp' = [resp EXCEPT ![t] =
                  Response("broadcast_notification", 400,
                           ErrorBody("Data required"))]
            /\ iter' = [iter EXCEPT ![t] = NoIter]
            /\ view' = [view EXCEPT ![t] = {}]
            /\ UNCHANGED pc
       ELSE /\ pc' = [pc EXCEPT ![t] = "broadcast_loop"]
            /\ resp' = [resp EXCEPT ![t] = NoResp]
            /\ iter' = [iter EXCEPT ![t] = NewIter(device_tokens)]
            /\ view' = [view EXCEPT ![t] = Keys(device_tokens)]
    /\ UNCHANGED <<device_tokens, price_alerts, before, transport_down,
                   locals, overlapped>>

\* one turn of `for token in device_tokens.keys()`: the iterator's next(),
\* then the loop body, or the end of the loop and the response
broadcast_loop(t) ==
    /\ pc[t] = "broadcast_loop"
    /\ LET out == IterOutcome(device_tokens, iter[t])
           token == device_tokens[NextSlot(device_tokens, iter[t].di_pos)].key
       IN CASE out = "key" /\ ~SendFails(token) ->
                 /\ iter' = [iter EXCEPT ![t] =
                       IterAdvance(device_tokens, iter[t])]
                 /\ sent' = [sent EXCEPT ![t] =
                       Append(@, BroadcastNotification(req[t].data, token))]
                 /\ sent_count' = [sent_count EXCEPT ![t] = Counted(@)]
                 /\ UNCHANGED <<pc, resp>>
            [] out = "key" /\ SendFails(token) ->
                 \* nothing catches the exception: the loop is left
                 /\ pc' = [pc EXCEPT ![t] = "idle"]
                 /\ resp' = [resp EXCEPT ![t] =
                       Response("broadcast_notification", 500,
                                ErrorBody("TransportError"))]
                 /\ iter' = [iter EXCEPT ![t] = NoIter]
                 /\ UNCHANGED <<sent, sent_count>>
            [] out = "stop" ->
                 /\ pc' = [pc EXCEPT ![t] = "idle"]
                 /\ resp' = [resp EXCEPT ![t] =
                       Response("broadcast_notification", 200,
                                [kind |-> "broadcast",
                                 sent_count |-> sent_count[t]])]
                 /\ iter' = [iter EXCEPT ![t] = NoIter]
                 /\ UNCHANGED <<sent, sent_count>>
            [] OTHER ->
                 /\ pc' = [pc EXCEPT ![t] = "idle"]
                 /\ resp' = [resp EXCEPT ![t] =
                       Response("broadcast_notification", 500,
                                ErrorBody("RuntimeError"))]
                 /\ iter' = [iter EXCEPT ![t] = NoIter]
                 /\ UNCHANGED <<sent, sent_count>>
    /\ UNCHANGED <<device_tokens, price_alerts, req, view, before,
                   transport_down,
                   locals, overlapped>>

----------------------------------------------------------------------------
(* Trading alerts *)

\* a JSON number with a fraction, n in tenths (55.5 is Frac(555))
Frac(n) == [kind |-> "frac", n |-> n, s |-> ""]

\* int(x): a whole number is itself, a fraction is cut towards zero, a
\* string is parsed as a whole number, anything else raises ValueError
PyIntOk(v) ==
    \/ v.kind \in {"num", "frac"}
    \/ v.kind = "str" /\ v.s \in {"85", "150"}

PyInt(v) ==
    CASE v.kind = "num" -> v.n
      [] v.kind = "frac" -> IF v.n >= 0 THEN v.n \div 10 ELSE -((-v.n) \div 10)
      [] v.s = "85" -> 85
      [] v.s = "150" -> 150
      [] OTHER -> 0

TradingAlertBodies ==
    { [symbol |-> Str("aapl"), alert_type |-> Str("BUY"),
       confidence |-> Num(85), reason |-> Str("Breakout")],
      [symbol |-> Str("MSFT"), alert_type |-> Str("WATCH"),
       confidence |-> Str("85"), reason |-> Str("Earnings")],
      [symbol |-> Str("aapl"), alert_type |-> Str("SELL"),
       confidence |-> Num(150), reason |-> Str("Breakdown")],
      [symbol |-> Str("aapl"), alert_type |-> Str("BUY"),
       confidence |-> Frac(555), reason |-> Str("Breakout")],
      [symbol |-> Str("aapl"), alert_type |-> Str("BUY"),
       confidence |-> Str("abc"), reason |-> Str("Breakout")],
      [symbol |-> Str("aapl"), alert_type |-> Str("BUY"),
       confidence |-> Absent, reason |-> Str("Breakout")],
      [symbol |-> Str("aapl"), alert_type |-> Str("BUY"),
       confidence |-> Num(85), reason |-> Absent] }

\* all(field in data for field in required_fields)
TradingAlertFieldsPresent(data) ==
    /\ data.symbol.kind # "absent"
    /\ data.alert_type.kind # "absent"
    /\ data.confidence.kind # "absent"
    /\ data.reason.kind # "absent"

\* the alert dict; its id and created_at are wall-clock text
NewTradingAlert(data) ==
    [symbol |-> Upper(data.symbol.s),
     alert_type |-> data.alert_type.s,
     confidence |-> PyInt(data.confidence),
     reason |-> data.reason.s]

\* a lookup without the fallback: an unknown type gets the icon of BUY
Emoji_NoFallback(alert_type) ==
    CASE alert_type = "NO-BRAINER BUY" -> "siren"
      [] alert_type = "STRONG BUY" -> "green"
      [] alert_type = "HOLD" -> "white"
      [] alert_type = "REDUCE" -> "orange"
      [] alert_type = "SELL" -> "red"
      [] OTHER -> "yellow"

\* {...}.get(alert['alert_type'], fallback)
Emoji(alert_type) ==
    CASE alert_type = "NO-BRAINER BUY" -> "siren"
      [] alert_type = "STRONG BUY" -> "green"
      [] alert_type = "BUY" -> "yellow"
      [] alert_type = "HOLD" -> "white"
      [] alert_type = "REDUCE" -> "orange"
      [] alert_type = "SELL" -> "red"
      [] OTHER -> "chart"

\* title "{emoji} {alert_type}: {symbol}", body "{reason} (Confidence: {n}%)"
TradingNotification(alert, token) ==
    Notification(token,
                 <<Emoji(alert.alert_type), " ", alert.alert_type, ": ",
                   alert.symbol>>,
                 <<alert.reason, " (Confidence: ", alert.confidence, "%)">>,
                 alert.symbol)

\* the handler up to the creation of the loop's key iterator
create_trading_alert(t, data) ==
    /\ pc[t] = "idle"
    /\ req' = [req EXCEPT ![t] = [op |-> "create_trading_alert",
                                  data |-> data]]
    /\ sent' = [sent EXCEPT ![t] = <<>>]
    /\ sent_count' = [sent_count EXCEPT ![t] = 0]
    /\ IF ~TradingAlertFieldsPresent(data)
       THEN /\ resp' = [resp EXCEPT ![t] =
                  Response("create_trading_alert", 400,
                           ErrorBody("Missing required fields"))]
            /\ iter' = [iter EXCEPT ![t] = NoIter]
            /\ view' = [view EXCEPT ![t] = {}]
            /\ UNCHANGED pc
       ELSE IF ~PyIntOk(data.confidence)
       THEN \* int() raises ValueError: Flask answers 500
            /\ resp' = [resp EXCEPT ![t] =
                  Response("create_trading_alert", 500,
                           ErrorBody("ValueError"))]
            /\ iter' = [iter EXCEPT ![t] = NoIter]
            /\ view' = [view EXCEPT ![t] = {}]
            /\ UNCHANGED pc
       ELSE /\ pc' = [pc EXCEPT ![t] = "trading_loop"]
            /\ resp' = [resp EXCEPT ![t] = NoResp]
            /\ iter' = [iter EXCEPT ![t] = NewIter(device_tokens)]
            /\ view' = [view EXCEPT ![t] = Keys(device_tokens)]
    /\ UNCHANGED <<device_tokens, price_alerts, before, transport_down,
                   locals, overlapped>>

\* one turn of the notification loop, or its end and the response
trading_loop(t) ==
    /\ pc[t] = "trading_loop"
    /\ LET out == IterOutcome(device_tokens, iter[t])
           token == device_tokens[NextSlot(device_tokens, iter[t].di_pos)].key
           alert == NewTradingAlert(req[t].data)
       IN CASE out = "key" /\ ~SendFails(token) ->
                 /\ iter' = [iter EXCEPT ![t] =
                       IterAdvance(device_tokens, iter[t])]
                 /\ sent' = [sent EXCEPT ![t] =
                       Append(@, TradingNotification(alert, token))]
                 /\ UNCHANGED <<pc, resp>>
            [] out = "key" /\ SendFails(token) ->
                 /\ pc' = [pc EXCEPT ![t] = "idle"]
                 /\ resp' = [resp EXCEPT ![t] =
                       Response("create_trading_alert", 500,
                                ErrorBody("TransportError"))]
                 /\ iter' = [iter EXCEPT ![t] = NoIter]
                 /\ UNCHANGED <<sent>>
            [] out = "stop" ->
                 /\ pc' = [pc EXCEPT ![t] = "idle"]
                 /\ resp' = [resp EXCEPT ![t] =
                       Response("create_trading_alert", 200,
                                [kind |-> "alert", alert |-> alert])]
                 /\ iter' = [iter EXCEPT ![t] = NoIter]
                 /\ UNCHANGED <<sent>>
            [] OTHER ->
                 /\ pc' = [pc EXCEPT ![t] = "idle"]
                 /\ resp' = [resp EXCEPT ![t] =
                       Response("create_trading_alert", 500,
                                ErrorBody("RuntimeError"))]
                 /\ iter' = [iter EXCEPT ![t] = NoIter]
                 /\ UNCHANGED <<sent>>
    /\ UNCHANGED <<device_tokens, price_alerts, req, sent_count, view, before,
                   transport_down,
                   locals, overlapped>>

----------------------------------------------------------------------------
(* Live activity updates *)

\* the bodies POST /api/liveactivity/update is driven with
LiveActivityBodies ==
    { NoJson,
      [empty |-> FALSE, push_token |-> Str("A"), symbol |-> Str("aapl")],
      [empty |-> FALSE, push_token |-> Absent, symbol |-> Str("aapl")],
      [empty |-> FALSE, push_token |-> Str("B"), symbol |-> Absent] }

\* what ticker.info holds when the activity is updated: a previous close of
\* zero, above and below the price, not there, negative, and no price at
\* all; prices in whole units here
LiveInfos ==
    { [currentPrice |-> Num(100), regularMarketPrice |-> NoKey,
       previousClose |-> Num(0)],
      [currentPrice |-> Num(150), regularMarketPrice |-> NoKey,
       previousClose |-> Num(100)],
      [currentPrice |-> Num(90), regularMarketPrice |-> Num(91),
       previousClose |-> Num(100)],
      [currentPrice |-> NoKey, regularMarketPrice |-> Num(151),
       previousClose |-> NoKey],
      [currentPrice |-> Num(100), regularMarketPrice |-> NoKey,
       previousClose |-> Num(-5)],
      [currentPrice |-> NoKey, regularMarketPrice |-> NoKey,
       previousClose |-> Num(100)] }

\* not data or 'push_token' not in data or 'symbol' not in data
LiveActivityFieldsMissing(data) ==
    \/ data.empty
    \/ data.push_token.kind = "absent"
    \/ data.symbol.kind = "absent"

\* an update without the guard on the previous close
PriceChangePercent_Unguarded(current_price, previous_close) ==
    [num |-> (current_price - previous_close) * 100,
     den |-> previous_close]

\* ((current_price - previous_close) / previous_close * 100)
\*     if previous_close > 0 else 0, as the fraction num / den
PriceChangePercent(current_price, previous_close) ==
    IF previous_close > 0
    THEN [num |-> (current_price - previous_close) * 100,
          den |-> previous_close]
    ELSE [num |-> 0, den |-> 1]

\* the content-state of update_payload; its timestamps are wall-clock
ContentState(info) ==
    LET current_price == CurrentPrice(info)
        previous_close == InfoGet0(info.previousClose)
    IN [kind |-> "payload",
        currentPrice |-> current_price,
        priceChange |-> current_price - previous_close,
        priceChangePercent |->
            PriceChangePercent(current_price, previous_close)]

\* ok = FALSE: yfinance raised, the handler's except answers 500
update_live_activity(t, data, info, ok) ==
    /\ pc[t] = "idle"
    /\ req' = [req EXCEPT ![t] = [op |-> "update_live_activity",
                                  data |-> data, info |-> info]]
    /\ before' = Snapshot(t)
    /\ resp' = [resp EXCEPT ![t] =
          IF LiveActivityFieldsMissing(data)
          THEN Response("update_live_activity", 400,
                        ErrorBody("push_token and symbol required"))
          ELSE IF ok
          THEN Response("update_live_activity", 200, ContentState(info))
          ELSE Response("update_live_activity", 500, ErrorBody("Exception"))]
    /\ NoLoop(t)
    /\ UNCHANGED <<device_tokens, price_alerts, pc, transport_down,
                   locals, overlapped>>

----------------------------------------------------------------------------
(* Specifications *)


Start ==
    /\ device_tokens = <<>>
    /\ price_alerts = <<>>
    /\ pc = [t \in Threads |-> "idle"]
    /\ req = [t \in Threads |-> NoReq]
    /\ resp = [t \in Threads |-> NoResp]
    /\ iter = [t \in Threads |-> NoIter]
    /\ sent_count = [t \in Threads |-> 0]
    /\ sent = [t \in Threads |-> <<>>]
    /\ view = [t \in Threads |-> {}]
    /\ before = [by |-> "t1", alerts |-> <<>>, tokens |-> <<>>]
    /\ locals = [t \in Threads |-> NoLocals]
    /\ overlapped = [t \in Threads |-> FALSE]

\* the source as it stands: the placeholder transport never raises
Init == Start /\ transport_down = {}

\* a transport that raises for some tokens
InitTransport == Start /\ transport_down \in SUBSET Tokens

\* the alert store and the quote endpoint, one request at a time
NextAlerts ==
    \/ \E data \in PriceAlertBodies : create_price_alert("t1", data)
    \/ get_price_alerts("t1")
    \/ \E alert_id \in 0 .. MaxAlerts + 1 : delete_price_alert("t1", alert_id)
    \/ \E symbol \in {"aapl", "MSFT"}, info \in TickerInfos, ok \in BOOLEAN :
          get_quote("t1", symbol, info, ok)

SpecAlerts == Init /\ [][NextAlerts]_vars

\* the steps of one request thread on the registry and the dispatch loops
Mutate(t) ==
    \/ \E data \in RegisterBodies : register_device(t, data)
    \/ \E data \in RegisterBodies : unregister_device(t, data)
    \/ unregister_del(t)

Dispatch(t) ==
    \/ \E data \in BroadcastBodies : broadcast_notification(t, data)
    \/ broadcast_loop(t)
    \/ \E data \in TradingAlertBodies : create_trading_alert(t, data)
    \/ trading_loop(t)

\* one request at a time
NextSeq == Mutate("t1") \/ Dispatch("t1")

SpecSeq == Init /\ [][NextSeq]_vars

\* two request threads at once: t1 serves the dispatch requests while t2
\* serves the registry requests
Next == Dispatch("t1") \/ Mutate("t2")

Spec == Init /\ [][Next]_vars

\* one request at a time, over a transport that may raise
SpecTransport == InitTransport /\ [][NextSeq]_vars

\* the bodies that create a price alert for a device
DeviceAlertBodies ==
    {data \in PriceAlertBodies : data.device_token.kind # "absent"}

\* the bodies that name a token and nothing else
FrameRegisterBodies ==
    {data \in RegisterBodies :
        ~TokenMissing(data) /\ data.user_id.kind = "absent"}

\* the bodies of a broadcast with a title
FrameBroadcastBodies ==
    {data \in BroadcastBodies : ~data.empty /\ data.title.kind # "absent"}

\* the alert store, the registry, a broadcast and the live activity update
\* together, one request at a time
NextFrame ==
    \/ \E data \in DeviceAlertBodies : create_price_alert("t1", data)
    \/ \E data \in FrameRegisterBodies : register_device("t1", data)
    \/ \E data \in FrameRegisterBodies : unregister_device("t1", data)
    \/ unregister_del("t1")
    \/ \E data \in FrameBroadcastBodies : broadcast_notification("t1", data)
    \/ broadcast_loop("t1")
    \/ \E data \in LiveActivityBodies, info \in LiveInfos, ok \in BOOLEAN :
          update_live_activity("t1", data, info, ok)

SpecFrame == Init /\ [][NextFrame]_vars

\* the bodies that create a price alert for device A
StoreAlertBodies ==
    {data \in PriceAlertBodies : data.device_token = Str("A")}

\* the alert store served by two request threads at once: both serve
\* creates, t2 serves the deletes
NextStore ==
    \/ \E t \in Threads, data \in StoreAlertBodies :
          create_price_alert_build(t, data)
    \/ \E t \in Threads : create_price_alert_append(t)
    \/ \E alert_id \in 1 .. MaxAlerts :
          delete_price_alert_filter("t2", alert_id)
    \/ delete_price_alert_assign("t2")

SpecStore == Init /\ [][NextStore]_vars

\* the alert store with no delete request, one request at a time
NextNoDelete ==
    \/ \E data \in PriceAlertBodies : create_price_alert("t1", data)
    \/ get_price_alerts("t1")

SpecNoDelete == Init /\ [][NextNoDelete]_vars

----------------------------------------------------------------------------
(* Properties of the alert store, under SpecAlerts *)

AlertIds(alerts) == {alerts[i].id : i \in 1 .. Len(alerts)}

\* C1: every price alert gets an id strictly greater than the id of every
\* alert created before it, so no id is assigned twice, deletions or not.
\* The store is in creation order, so its ids would have to rise strictly.
C1_IdsStrictlyIncrease ==
    \A i, j \in 1 .. Len(price_alerts) :
        i < j => price_alerts[i].id < price_alerts[j].id

\* the threshold condition of a price alert at a price
Qualifies(alert, price) ==
    \/ alert.direction = "above" /\ price >= alert.target_price
    \/ alert.direction = "below" /\ price <= alert.target_price

\* an alert the spec's data model admits
WellFormed(alert) ==
    alert.target_price > 0 /\ alert.direction \in {"above", "below"}

\* thread t has just been answered a quote
QuoteSeen(t) == req[t].op = "get_quote" /\ resp[t].status = 200

\* C2: an alert whose qualifying price has been observed has gone from
\* triggered = false to true (once, and for good).  Stated where the quote
\* for the alert's symbol is the last thing the store's thread served.
C2_TriggeredOnceObserved ==
    \A t \in Threads :
        QuoteSeen(t) /\ before.by = t =>
            \A i \in 1 .. Len(price_alerts) :
                ( /\ WellFormed(price_alerts[i])
                  /\ price_alerts[i].symbol = resp[t].body.symbol
                  /\ Qualifies(price_alerts[i], resp[t].body.current_price) )
                => price_alerts[i].triggered

\* C3: when a quote for a symbol is evaluated, a non-triggered alert for
\* that symbol fires if and only if its threshold condition holds at the
\* quoted price (boundary included).
C3_FiresIffThreshold ==
    [][ \A t \in Threads :
          ( /\ req'[t].op = "get_quote"
            /\ resp'[t].status = 200
            /\ (req'[t] # req[t] \/ resp'[t] # resp[t]) )
          => \A i \in 1 .. Len(price_alerts) :
                ( /\ WellFormed(price_alerts[i])
                  /\ ~price_alerts[i].triggered
                  /\ price_alerts[i].symbol = resp'[t].body.symbol )
                => ( ( /\ Len(price_alerts') = Len(price_alerts)
                       /\ price_alerts'[i].triggered )
                     <=> Qualifies(price_alerts[i],
                                   resp'[t].body.current_price) ) ]_vars

\* thread t's last request was a delete of an id the store did not hold
DeletedAbsent(t) ==
    /\ req[t].op = "delete_price_alert"
    /\ before.by = t
    /\ req[t].alert_id \notin AlertIds(before.alerts)

\* C8: deleting an id that is not in the store returns success and leaves
\* the store, and so the sequence listPriceAlerts returns, as it was.
C8_DeleteAbsentNoOp ==
    \A t \in Threads :
        /\ DeletedAbsent(t) =>
              /\ resp[t].status = 200
              /\ price_alerts = before.alerts
        /\ req[t].op = "get_price_alerts" /\ before.by = t =>
              /\ resp[t].status = 200
              /\ resp[t].body.alerts = price_alerts

\* C8 witness: an absent id was deleted from a store that holds alerts
C8_Witness ==
    \E t \in Threads :
        /\ DeletedAbsent(t)
        /\ Len(before.alerts) >= 2
        /\ resp[t].status = 200

\* a create request the spec's validation rejects: target price not above
\* zero, or a direction that is neither above nor below
InvalidPriceAlert(data) ==
    /\ PriceAlertFieldsPresent(data)
    /\ PyFloatOk(data.target_price)
    /\ \/ PyFloat(data.target_price) <= 0
       \/ data.direction.s \notin {"above", "below"}

\* C9: createPriceAlert with targetPrice <= 0 or a direction other than
\* above/below fails with a validation error and adds no alert.
C9_InvalidAlertRejected ==
    \A t \in Threads :
        ( /\ req[t].op = "create_price_alert"
          /\ before.by = t
          /\ InvalidPriceAlert(req[t].data) )
        => /\ resp[t].status = 400
           /\ price_alerts = before.alerts

----------------------------------------------------------------------------
(* Properties of the registry and the dispatch loops *)

\* the tokens the notifications of a sequence went to
SentTo(ns) == {ns[i].token : i \in 1 .. Len(ns)}

\* how many notifications of a sequence went to token
TimesSent(ns, token) == Cardinality({i \in 1 .. Len(ns) : ns[i].token = token})

\* thread t's broadcast got past the body check and has ended
BroadcastEnded(t) ==
    /\ req[t].op = "broadcast_notification"
    /\ ~req[t].data.empty
    /\ pc[t] = "idle"

DispatchEnded(t) ==
    /\ pc[t] = "idle"
    /\ \/ BroadcastEnded(t)
       \/ /\ req[t].op = "create_trading_alert"
          /\ TradingAlertFieldsPresent(req[t].data)
          /\ PyIntOk(req[t].data.confidence)

\* C5 (Spec): a dispatch that runs while register and unregister requests
\* are served delivers to exactly the tokens registered when it took its
\* view of the registry, and ends without an error.
C5_SnapshotDelivery ==
    \A t \in Threads :
        DispatchEnded(t) =>
            /\ resp[t].status = 200
            /\ SentTo(sent[t]) = view[t]

\* C6 (SpecSeq): with no registry request served meanwhile, a broadcast
\* sends exactly one notification to each registered token and none to any
\* other, and reports the number of registered tokens as its sent count.
C6_BroadcastExactlyOnce ==
    \A t \in Threads :
        BroadcastEnded(t) =>
            /\ resp[t].status = 200
            /\ resp[t].body.sent_count = Used(device_tokens)
            /\ Len(sent[t]) = Used(device_tokens)
            /\ \A k \in Keys(device_tokens) : TimesSent(sent[t], k) = 1
            /\ SentTo(sent[t]) \subseteq Keys(device_tokens)

\* C6 witness: a broadcast has ended over a registry of two tokens, one of
\* them registered by the request served just before it into the slot
\* after an unregistered one
C6_Witness ==
    \E t \in Threads :
        /\ BroadcastEnded(t)
        /\ Used(device_tokens) = 2
        /\ Len(device_tokens) > 2
        /\ \E k \in Keys(device_tokens) \ Keys(before.tokens) :
              TimesSent(sent[t], k) = 1
        /\ resp[t].status = 200
        /\ resp[t].body.sent_count = 2

\* thread t's last request registered a token that was registered before
RegisteredAgain(t) ==
    /\ req[t].op = "register_device"
    /\ before.by = t
    /\ ~TokenMissing(req[t].data)
    /\ req[t].data.token.s \in Keys(before.tokens)

\* the entries a registry holds for token
EntriesOf(d, token) == {i \in LiveSlots(d) : d[i].key = token}

\* C7 (SpecSeq): registering a token twice leaves exactly one entry for it,
\* with the owner and platform of the second registration, and leaves the
\* entries of the other tokens as they were.
C7_ReRegisterOverwrites ==
    \A t \in Threads :
        RegisteredAgain(t) =>
            LET data == req[t].data
                k == data.token.s
            IN /\ resp[t].status = 200
               /\ Cardinality(EntriesOf(device_tokens, k)) = 1
               /\ \A i \in EntriesOf(device_tokens, k) :
                     /\ device_tokens[i].user_id =
                           (IF data.user_id.kind = "absent" THEN "anonymous"
                            ELSE data.user_id.s)
                     /\ device_tokens[i].platform =
                           (IF data.platform.kind = "absent" THEN "ios"
                            ELSE data.platform.s)
               /\ \A o \in Tokens \ {k} :
                     /\ o \in Keys(device_tokens) <=> o \in Keys(before.tokens)
                     /\ o \in Keys(device_tokens) =>
                           device_tokens[SlotOf(device_tokens, o)] =
                           before.tokens[SlotOf(before.tokens, o)]

\* C7 witness: a token registered as anonymous/ios was registered again
\* with another owner and platform, next to another token
C7_Witness ==
    \E t \in Threads :
        /\ RegisteredAgain(t)
        /\ LET k == req[t].data.token.s
           IN /\ before.tokens[SlotOf(before.tokens, k)].user_id = "anonymous"
              /\ device_tokens[SlotOf(device_tokens, k)].user_id = "u1"
              /\ device_tokens[SlotOf(device_tokens, k)].platform = "android"
        /\ Used(device_tokens) = 2

\* a confidence that is an integer in 0..100 (given as a number or as text)
ConfidenceValid(v) ==
    /\ v.kind \in {"num", "str"}
    /\ PyIntOk(v)
    /\ PyInt(v) >= 0
    /\ PyInt(v) <= 100

\* C10 (SpecSeq): createTradingAlert with a confidence that is no integer
\* in 0..100 fails with an error (either error status is taken for the
\* validation error here) and sends no notification.
C10_BadConfidenceRejected ==
    \A t \in Threads :
        ( /\ req[t].op = "create_trading_alert"
          /\ TradingAlertFieldsPresent(req[t].data)
          /\ ~ConfidenceValid(req[t].data.confidence) )
        => /\ pc[t] = "idle"
           /\ resp[t].status \in {400, 500}
           /\ sent[t] = <<>>

\* thread t's last request was a trading alert that was created
TradingAlertEnded(t) ==
    /\ pc[t] = "idle"
    /\ req[t].op = "create_trading_alert"
    /\ resp[t].status = 200

\* the icon the notification title of an alert type starts with
IconOf(alert_type) ==
    IF alert_type = "NO-BRAINER BUY" THEN "siren"
    ELSE IF alert_type = "STRONG BUY" THEN "green"
    ELSE IF alert_type = "BUY" THEN "yellow"
    ELSE IF alert_type = "HOLD" THEN "white"
    ELSE IF alert_type = "REDUCE" THEN "orange"
    ELSE IF alert_type = "SELL" THEN "red"
    ELSE "chart"

\* C11 (SpecSeq): a created trading alert has sent exactly one notification
\* to every registered token and none to any other, each with the title
\* "{icon} {alertType}: {symbol}" and the body
\* "{reason} (Confidence: {confidence}%)" of the alert returned, the icon
\* being that of the alert type or the fallback icon for an unknown type.
C11_TradingAlertNotifiesAll ==
    \A t \in Threads :
        TradingAlertEnded(t) =>
            LET alert == resp[t].body.alert
            IN /\ Len(sent[t]) = Used(device_tokens)
               /\ \A k \in Keys(device_tokens) : TimesSent(sent[t], k) = 1
               /\ SentTo(sent[t]) \subseteq Keys(device_tokens)
               /\ alert.alert_type = req[t].data.alert_type.s
               /\ alert.reason = req[t].data.reason.s
               /\ \A i \in 1 .. Len(sent[t]) :
                     /\ sent[t][i].title =
                           <<IconOf(alert.alert_type), " ", alert.alert_type,
                             ": ", alert.symbol>>
                     /\ sent[t][i].body =
                           <<alert.reason, " (Confidence: ",
                             alert.confidence, "%)">>

\* C11 witness: a trading alert of an unknown type was created over a
\* registry of two tokens and both got its notification, fallback icon first
C11_Witness ==
    \E t \in Threads :
        /\ TradingAlertEnded(t)
        /\ req[t].data.alert_type.s = "WATCH"
        /\ Used(device_tokens) = 2
        /\ Len(sent[t]) = 2
        /\ sent[t][1].token # sent[t][2].token
        /\ sent[t][2].title = <<"chart", " ", "WATCH", ": ", "MSFT">>
        /\ sent[t][2].body = <<"Earnings", " (Confidence: ", 85, "%)">>

\* thread t's last request updated a live activity
LiveActivityUpdated(t) ==
    /\ req[t].op = "update_live_activity"
    /\ before.by = t
    /\ resp[t].status = 200

\* C12 (SpecFrame): a live activity update answers priceChange =
\* currentPrice - previousClose and priceChangePercent = priceChange /
\* previousClose * 100 when previousClose > 0, and exactly 0 when
\* previousClose <= 0 (for currentPrice 100 and previousClose 0:
\* priceChange 100 and 0 percent), over a divisor that is never zero,
\* and leaves the registry and the alert store as they were.
C12_LiveActivityProjection ==
    \A t \in Threads :
        LiveActivityUpdated(t) =>
            LET info == req[t].info
                state == resp[t].body
                prev == IF info.previousClose.kind = "absent" THEN 0
                        ELSE info.previousClose.n
                pct == state.priceChangePercent
            IN /\ state.priceChange = state.currentPrice - prev
               /\ pct.den # 0
               /\ prev > 0 =>
                     pct.num * prev = state.priceChange * 100 * pct.den
               /\ prev <= 0 => pct.num = 0
               /\ (state.currentPrice = 100 /\ prev = 0) =>
                     state.priceChange = 100 /\ pct.num = 0
               /\ device_tokens = before.tokens
               /\ price_alerts = before.alerts

\* C12 witness: with an alert stored and a device registered, the update
\* for a price of 100 over a previous close of 0 answered a change of 100
\* and 0 percent
C12_Witness ==
    \E t \in Threads :
        /\ LiveActivityUpdated(t)
        /\ req[t].info.previousClose = Num(0)
        /\ resp[t].body.currentPrice = 100
        /\ resp[t].body.priceChange = 100
        /\ resp[t].body.priceChangePercent.num = 0
        /\ Len(price_alerts) > 0
        /\ Used(device_tokens) > 0

\* thread t's last request was an unregister that named a token and ended
Unregistered(t) ==
    /\ req[t].op = "unregister_device"
    /\ before.by = t
    /\ pc[t] = "idle"
    /\ ~TokenMissing(req[t].data)

\* C13 (SpecSeq): unregistering a token succeeds whether or not it is
\* registered; a token that is not registered leaves the registry exactly
\* as it was, and in either case the token is absent afterwards and the
\* other tokens are registered as before, so a second unregister of the
\* same token changes nothing.
C13_UnregisterIdempotent ==
    \A t \in Threads :
        Unregistered(t) =>
            LET k == req[t].data.token.s
            IN /\ resp[t].status = 200
               /\ k \notin Keys(device_tokens)
               /\ Keys(device_tokens) = Keys(before.tokens) \ {k}
               /\ k \notin Keys(before.tokens) =>
                     device_tokens = before.tokens

\* C13 witness: a token that was unregistered before (its slot is emptied)
\* was unregistered while another token is registered, with success and
\* the registry as it was
C13_Witness ==
    \E t \in Threads :
        /\ Unregistered(t)
        /\ req[t].data.token.s \notin Keys(before.tokens)
        /\ Len(before.tokens) > Used(before.tokens)
        /\ Used(before.tokens) = 1
        /\ resp[t].status = 200
        /\ device_tokens = before.tokens

\* new holds alerts of old only, in the order old holds them
KeepsOrder(new, old) ==
    \E f \in [1 .. Len(new) -> 1 .. Len(old)] :
        /\ \A i \in 1 .. Len(new) : new[i] = old[f[i]]
        /\ \A i, j \in 1 .. Len(new) : i < j => f[i] < f[j]

\* C14 (SpecAlerts): listPriceAlerts answers the store as it is, and the
\* store holds the alerts created and not deleted in the order of their
\* creation: a create puts its alert after all the alerts held, a delete
\* keeps the alerts of other ids in their order and adds none, and no other
\* request changes the store.
C14_ListInCreationOrder ==
    \A t \in Threads :
        before.by = t =>
            /\ req[t].op = "get_price_alerts" =>
                  /\ resp[t].body.alerts = before.alerts
                  /\ price_alerts = before.alerts
            /\ (req[t].op = "create_price_alert" /\ resp[t].status = 200) =>
                  /\ Len(price_alerts) = Len(before.alerts) + 1
                  /\ \A i \in 1 .. Len(before.alerts) :
                        price_alerts[i] = before.alerts[i]
                  /\ price_alerts[Len(price_alerts)] = resp[t].body.alert
            /\ (req[t].op = "create_price_alert" /\ resp[t].status # 200) =>
                  price_alerts = before.alerts
            /\ req[t].op = "delete_price_alert" =>
                  /\ KeepsOrder(price_alerts, before.alerts)
                  /\ \A i \in 1 .. Len(before.alerts) :
                        before.alerts[i].id # req[t].alert_id =>
                            \E j \in 1 .. Len(price_alerts) :
                                price_alerts[j] = before.alerts[i]
            /\ req[t].op = "get_quote" => price_alerts = before.alerts

\* C14 witness: a listing answered two alerts after the first alert ever
\* created was deleted, the older of the two first
C14_Witness ==
    \E t \in Threads :
        /\ req[t].op = "get_price_alerts"
        /\ before.by = t
        /\ Len(resp[t].body.alerts) = 2
        /\ resp[t].body.alerts[1].id = 2
        /\ resp[t].body.alerts[1] # resp[t].body.alerts[2]
        /\ resp[t].body.alerts = price_alerts

\* thread t's last request created an alert while the other thread's last
\* request was served, and both have ended
CreatedBeside(t, u) ==
    /\ t # u
    /\ pc[t] = "idle"
    /\ pc[u] = "idle"
    /\ overlapped[t]
    /\ overlapped[u]
    /\ req[t].op = "create_price_alert"
    /\ resp[t].status = 200

\* alert is one of the alerts the store holds
Stored(alert) == \E i \in 1 .. Len(price_alerts) : price_alerts[i] = alert

\* C15 (SpecStore): requests that change the alert store exclude each
\* other: an alert created while another create was served is in the store
\* afterwards with an id other than the other created alert's, and an alert
\* created while a delete of another id was served is in the store
\* afterwards.
C15_StoreMutationsExclusive ==
    \A t, u \in Threads :
        CreatedBeside(t, u) =>
            /\ (req[u].op = "create_price_alert" /\ resp[u].status = 200) =>
                  /\ resp[t].body.alert.id # resp[u].body.alert.id
                  /\ Stored(resp[t].body.alert)
                  /\ Stored(resp[u].body.alert)
            /\ ( /\ req[u].op = "delete_price_alert"
                 /\ req[u].alert_id # resp[t].body.alert.id ) =>
                  Stored(resp[t].body.alert)

\* thread t's last request was a register or an unregister
RegistryRequest(t) ==
    /\ req[t].op \in {"register_device", "unregister_device"}
    /\ before.by = t

\* the tokens the stored alerts were created for
AlertTokens == {price_alerts[i].device_token : i \in 1 .. Len(price_alerts)}

\* C16 (SpecFrame): a register or an unregister leaves the alert store as
\* it was, so an alert created for a token that is unregistered later stays
\* stored with that token, and a broadcast served afterwards sends nothing
\* to a token that is not registered.
C16_RegistryLeavesAlerts ==
    \A t \in Threads :
        /\ RegistryRequest(t) => price_alerts = before.alerts
        /\ BroadcastEnded(t) =>
              /\ SentTo(sent[t]) \subseteq Keys(device_tokens)
              /\ \A k \in AlertTokens \ Keys(device_tokens) :
                    TimesSent(sent[t], k) = 0

\* C16 witness: a registered token that a stored alert was created for was
\* unregistered, and the alert is stored as before
C16_Witness ==
    \E t \in Threads :
        /\ RegistryRequest(t)
        /\ req[t].op = "unregister_device"
        /\ pc[t] = "idle"
        /\ resp[t].status = 200
        /\ req[t].data.token.s \in Keys(before.tokens)
        /\ req[t].data.token.s \notin Keys(device_tokens)
        /\ req[t].data.token.s \in AlertTokens
        /\ price_alerts = before.alerts

\* thread t's last request is one the input validation rejects: no token
\* on a register or an unregister, a required field missing or a target
\* price that is no number on a price alert, a required field missing on a
\* trading alert
Malformed(t) ==
    \/ /\ req[t].op \in {"register_device", "unregister_device"}
       /\ TokenMissing(req[t].data)
    \/ /\ req[t].op = "create_price_alert"
       /\ \/ ~PriceAlertFieldsPresent(req[t].data)
          \/ ~PyFloatOk(req[t].data.target_price)
    \/ /\ req[t].op = "create_trading_alert"
       /\ ~TradingAlertFieldsPresent(req[t].data)

\* C17 (SpecAlerts): a request with malformed or missing input is answered
\* 400, leaves the registry and the alert store as they were and sends no
\* notification.
C17_MalformedRejected ==
    \A t \in Threads :
        Malformed(t) =>
            /\ pc[t] = "idle"
            /\ resp[t].status = 400
            /\ sent[t] = <<>>
            /\ req[t].op # "create_trading_alert" =>
                  /\ device_tokens = before.tokens
                  /\ price_alerts = before.alerts

\* the positions of the alerts of a sequence whose id is not alert_id
KeptPositions(alerts, alert_id) ==
    {i \in 1 .. Len(alerts) : alerts[i].id # alert_id}

\* C18 (SpecAlerts): deletePriceAlert(id) removes every alert whose id is
\* id and no other: the store afterwards is the alerts of the other ids,
\* each unchanged, in the order they were in.
C18_DeleteRemovesExactlyId ==
    \A t \in Threads :
        (req[t].op = "delete_price_alert" /\ before.by = t) =>
            LET kept == KeptPositions(before.alerts, req[t].alert_id)
            IN /\ resp[t].status = 200
               /\ Len(price_alerts) = Cardinality(kept)
               /\ \A i \in kept :
                     price_alerts[Cardinality({j \in kept : j <= i})] =
                         before.alerts[i]
               /\ \A i \in 1 .. Len(price_alerts) :
                     price_alerts[i].id # req[t].alert_id

\* C18 witness: a delete removed two alerts that had the same id and left
\* the alert of another id
C18_Witness ==
    \E t \in Threads :
        /\ req[t].op = "delete_price_alert"
        /\ before.by = t
        /\ Len(before.alerts) = 3
        /\ Cardinality(KeptPositions(before.alerts, req[t].alert_id)) = 1
        /\ Len(price_alerts) = 1

\* C19 (SpecNoDelete): with no delete, each successful create adds one
\* alert, so that after n of them the store holds n alerts whose ids are
\* 1..n in the order of the list, none of them triggered.
C19_IdsCountFromOne ==
    /\ \A i \in 1 .. Len(price_alerts) :
          /\ price_alerts[i].id = i
          /\ price_alerts[i].triggered = FALSE
    /\ \A t \in Threads :
          (req[t].op = "create_price_alert" /\ before.by = t) =>
              Len(price_alerts) =
                  Len(before.alerts) + (IF resp[t].status = 200 THEN 1 ELSE 0)

\* C19 witness: the third successful create in a row left three alerts
C19_Witness ==
    \E t \in Threads :
        /\ req[t].op = "create_price_alert"
        /\ before.by = t
        /\ resp[t].status = 200
        /\ resp[t].body.alert.id = 3
        /\ Len(before.alerts) = 2
        /\ Len(price_alerts) = 3

\* the step ends a successful register of token k
RegisterOf(k) ==
    \E t \in Threads :
        /\ pc[t] = "idle"
        /\ pc'[t] = "idle"
        /\ req'[t].op = "register_device"
        /\ ~TokenMissing(req'[t].data)
        /\ req'[t].data.token.s = k
        /\ resp'[t].status = 200

\* the step ends a successful unregister of token k
UnregisterOf(k) ==
    \E t \in Threads :
        /\ pc[t] \in {"idle", "unregister_del"}
        /\ pc'[t] = "idle"
        /\ req'[t].op = "unregister_device"
        /\ ~TokenMissing(req'[t].data)
        /\ req'[t].data.token.s = k
        /\ resp'[t].status = 200

\* C20 (SpecSeq): with one request at a time, a token is registered after
\* a step exactly if the step ended a register of it, or ended no
\* unregister of it and the token was registered before the step; so a
\* token is in the registry iff the latest register or unregister that
\* named it was a register, and the registry never holds two entries for
\* one token.
C20_LastRequestDecides ==
    [][ \A k \in Tokens :
           /\ k \in Keys(device_tokens') <=>
                 IF RegisterOf(k) THEN TRUE
                 ELSE IF UnregisterOf(k) THEN FALSE
                 ELSE k \in Keys(device_tokens)
           /\ Cardinality(EntriesOf(device_tokens', k)) <= 1 ]_vars

\* C20 witness: a token was registered again after an unregister had
\* emptied a slot, and the registry holds this token alone
C20_Witness ==
    \E t \in Threads :
        /\ req[t].op = "register_device"
        /\ before.by = t
        /\ resp[t].status = 200
        /\ req[t].data.token.s \notin Keys(before.tokens)
        /\ Len(before.tokens) > 0
        /\ Keys(device_tokens) = {req[t].data.token.s}
        /\ Cardinality(EntriesOf(device_tokens, req[t].data.token.s)) = 1

====
